---- MODULE Spec2Model ----
(***************************************************************************)
(* Model of package match (src/match/match.go): NewMatch, the event        *)
(* handlers registered by registerEventHandlers, and the tick loop of      *)
(* parseGameStates.                                                        *)
(*                                                                         *)
(* The demo decoder (demoinfocs) is the environment.  One frame of the     *)
(* demo is: the decoder dispatches the events of frame currentFrame to the *)
(* handlers (parser.CurrentFrame() = currentFrame while they run), then    *)
(* ParseNextFrame returns and the loop body of parseGameStates runs.       *)
(*                                                                         *)
(* Numbers.  Frame and tick rates are float64 in the code; here a rate is  *)
(* the integer n standing for n / RateDen.  Playback time is an integer    *)
(* number of time units, Second units to one second, FrameTime units per   *)
(* frame.  Every ephemeral effect carries the number id of the event that  *)
(* registered it; id stands for the payload copied from the event          *)
(* (position, view direction, names, weapon).                              *)
(***************************************************************************)
EXTENDS Integers, Sequences, FiniteSets, TLC

\* ------------------------------------------------------------ bounds
MaxFrames == 2
MaxEvents == 2
MaxKills == 6
MaxFireRate == 132
MaxShots == 1
MaxNewFrames == 1
MaxNewEvents == 1
MaxMapFrames == 1
MaxGrenadeFrames == 2
MaxGrenades == 3
MaxTimerFrames == 3
MaxTimerEvents == 2
MaxCoord == 3

\* ------------------------------------------------------------ constants
flashEffectLifetime == 10
heEffectLifetime == 10
killfeedLifetime == 10
c4timer == 40

RateDen == 2
NaN == -1000
NoFallback == (-1) * RateDen
Second == 4
FrameTime == 2
CoordStep == 11

Phases == {"Freezetime", "Regular", "Planted", "Restart", "Warmup", "Halftime"}

\* ------------------------------------------------------------ helpers
\* m[k] := v on a Go map (the key is created when absent)
Put(m, k, v) == [x \in (DOMAIN m) \cup {k} |-> IF x = k THEN v ELSE m[x]]

EmptyMap == [x \in {} |-> <<>>]

\* float64 -> int conversion of num/den (truncation toward zero)
Trunc(num, den) == IF num >= 0 THEN num \div den ELSE -((-num) \div den)

\* math.Round of n/RateDen (half away from zero)
Round(n) == IF n >= 0 THEN (2 * n + RateDen) \div (2 * RateDen)
                      ELSE -((2 * (-n) + RateDen) \div (2 * RateDen))

\* ------------------------------------------------------------ strconv
Digits == <<"0", "1", "2", "3", "4", "5", "6", "7", "8", "9">>

IsDigit(c) == \E d \in 1..10 : Digits[d] = c

DigitVal(c) == (CHOOSE d \in 1..10 : Digits[d] = c) - 1

RECURSIVE DecVal(_)
DecVal(s) == IF s = <<>> THEN 0
             ELSE 10 * DecVal(SubSeq(s, 1, Len(s) - 1)) + DigitVal(s[Len(s)])

AllDigits(s) == \A i \in 1..Len(s) : IsDigit(s[i])

\* the longest prefix of s made of digits
RECURSIVE DigitPrefix(_)
DigitPrefix(s) == IF s # <<>> /\ IsDigit(s[1]) THEN <<s[1]>> \o DigitPrefix(Tail(s)) ELSE <<>>

\* mutant: the digits before the first other character are the value, as with C's atoi
AtoiPrefix(s) == DecVal(DigitPrefix(s))

\* strconv.Atoi; the error is dropped by the callers and the value is then 0
Atoi(s) ==
    IF s = <<>> THEN 0
    ELSE IF s[1] \in {"+", "-"}
         THEN IF Len(s) > 1 /\ AllDigits(Tail(s))
              THEN (IF s[1] = "-" THEN -1 ELSE 1) * DecVal(Tail(s))
              ELSE 0
         ELSE IF AllDigits(s) THEN DecVal(s) ELSE 0

Pow10(k) == IF k = 0 THEN 1 ELSE IF k = 1 THEN 10 ELSE IF k = 2 THEN 100 ELSE 1000

DotsOf(s) == {i \in 1..Len(s) : s[i] = "."}

\* strconv.ParseFloat of an unsigned decimal: <<numerator, denominator>>;
\* <<0, 1>> when the text does not parse (the error is dropped by the caller)
ParseFloat(s) ==
    IF s = <<>> \/ Cardinality(DotsOf(s)) > 1 THEN <<0, 1>>
    ELSE IF DotsOf(s) = {}
         THEN IF AllDigits(s) THEN <<DecVal(s), 1>> ELSE <<0, 1>>
         ELSE LET d == CHOOSE i \in DotsOf(s) : TRUE
                  ip == SubSeq(s, 1, d - 1)
                  fp == SubSeq(s, d + 1, Len(s))
              IN IF AllDigits(ip) /\ AllDigits(fp) /\ Len(ip) + Len(fp) > 0 /\ Len(fp) <= 3
                 THEN <<DecVal(ip) * Pow10(Len(fp)) + DecVal(fp), Pow10(Len(fp))>>
                 ELSE <<0, 1>>

\* ------------------------------------------------------------ state
VARIABLES
    pc,                   \* "NewMatch", "parsing", "returned" (match, nil) or "failed" (nil, err)
    headerFrameRate,      \* header.FrameRate()
    parserTickRate,       \* parser.TickRate()
    fallbackFrameRate,    \* argument of NewMatch
    fallbackTickRate,     \* argument of NewMatch
    conVars,              \* gameState.ConVars()
    handlersRegistered,   \* registerEventHandlers has run
    currentFrame,         \* parser.CurrentFrame()
    frameCap,             \* frames the demo holds at most
    evLeft,               \* events the demo still holds at most
    FrameRate, TickRate, FrameRateRounded, SmokeEffectLifetime,
    HalfStarts, RoundStarts, GrenadeEffects, Killfeed, Shots, States,
    currentPhase, latestTimerEventTime,
    registry,             \* history: the effects registered so far, in order
    lastTransition,       \* history: the last phase transition event delivered
    builtFrom,            \* history: for each entry of States, the frame it was built from,
                          \* its warmup flag, the last transition delivered by then and
                          \* the tracked phase and anchor time it was built with
    skipped,              \* history: the frames whose decode returned an error
    headerMapName,        \* header.MapName
    MapName, MapPZero, MapScale,
    translated,           \* the last call of Translate and TranslateScale and its results
    eventLog              \* history: the frames of the round start events and of the
                          \* half start events delivered so far, in order

matchVars == <<FrameRate, TickRate, FrameRateRounded, SmokeEffectLifetime,
               HalfStarts, RoundStarts, GrenadeEffects, Killfeed, Shots, States,
               currentPhase, latestTimerEventTime>>

demoVars == <<headerFrameRate, parserTickRate, fallbackFrameRate, fallbackTickRate,
              conVars, frameCap, headerMapName>>

mapVars == <<MapName, MapPZero, MapScale>>

histVars == <<registry, lastTransition, builtFrom, skipped>>

vars == <<pc, demoVars, handlersRegistered, currentFrame, evLeft, matchVars, mapVars,
          translated, histVars, eventLog>>

\* parser.CurrentTime(): the playback time of the frame being handled
CurrentTime == currentFrame * FrameTime

\* ------------------------------------------------------------ demos
ConVarsSet == [mp_freezetime |-> <<"5">>,
               mp_roundtime_defuse |-> <<"1", ".", "9", "2">>,
               mp_round_restart_delay |-> <<"7">>,
               mp_halftime_duration |-> <<"1", "5">>,
               mp_c4timer |-> <<"3", "5">>]

ConVarsAbsent == [mp_freezetime |-> <<>>,
                  mp_roundtime_defuse |-> <<>>,
                  mp_round_restart_delay |-> <<>>,
                  mp_halftime_duration |-> <<>>,
                  mp_c4timer |-> <<>>]

ConVarsBad == [mp_freezetime |-> <<"1", ".", "5">>,
               mp_roundtime_defuse |-> <<"x">>,
               mp_round_restart_delay |-> <<"-">>,
               mp_halftime_duration |-> <<"1", "x">>,
               mp_c4timer |-> <<"x">>]

\* meta.MapNameToMap, the table of the maps the decoder's metadata knows.  A scale
\* is the pair <<n, d>> standing for n/d.
MapNameToMap ==
    [name \in {"de_dust2", "de_mirage"} |->
        IF name = "de_dust2"
        THEN [PZero |-> [X |-> -2476, Y |-> 3239], Scale |-> <<22, 5>>]
        ELSE [PZero |-> [X |-> -3230, Y |-> 1713], Scale |-> <<5, 1>>]]

\* the zero value of meta.Map
ZeroMap == [PZero |-> [X |-> 0, Y |-> 0], Scale |-> <<0, 1>>]

\* meta.MapNameToMap[name]: indexing a Go map with a key it does not hold gives
\* the zero value of the element type
MapLookup(name) == IF name \in DOMAIN MapNameToMap THEN MapNameToMap[name] ELSE ZeroMap

\* a float32 value: a finite n/d with d > 0, an infinity or a NaN
Finite(n, d) == [cls |-> "finite", num |-> n, den |-> d]

NotFinite(cls) == [cls |-> cls, num |-> 0, den |-> 1]

\* no call of Translate or TranslateScale has been made
NoCall == [called |-> FALSE, x |-> 0, y |-> 0, t |-> <<0, 0>>,
           ts |-> <<Finite(0, 1), Finite(0, 1)>>]

\* The state of a Match before NewMatch has filled it in.  currentPhase starts as
\* the zero value of common.Phase, which is declared outside this package: it is
\* either the first phase the package handles (Freezetime) or Warmup.
InitMatch ==
    /\ pc = "NewMatch"
    /\ handlersRegistered = FALSE
    /\ currentFrame = 0
    /\ FrameRate = 0 /\ TickRate = 0 /\ FrameRateRounded = 0 /\ SmokeEffectLifetime = 0
    /\ HalfStarts = <<>> /\ RoundStarts = <<>>
    /\ GrenadeEffects = EmptyMap /\ Killfeed = EmptyMap /\ Shots = EmptyMap
    /\ States = <<>>
    /\ currentPhase \in {"Freezetime", "Warmup"}
    /\ latestTimerEventTime = 0
    /\ registry = <<>>
    /\ lastTransition = [kind |-> "none", frame |-> 0, time |-> 0]
    /\ builtFrom = <<>>
    /\ skipped = {}
    /\ MapName = "" /\ MapPZero = ZeroMap.PZero /\ MapScale = ZeroMap.Scale
    /\ translated = NoCall
    /\ eventLog = [rounds |-> <<>>, halves |-> <<>>]

\* ------------------------------------------------------------ NewMatch
\* mutant: the NaN test is left out
RateInvalidZeroOnly(r) == r = 0

\* math.IsNaN(r) || r == 0
RateInvalid(r) == r = NaN \/ r = 0

NewMatch ==
    /\ pc = "NewMatch"
    /\ LET fr == IF RateInvalid(headerFrameRate) THEN fallbackFrameRate ELSE headerFrameRate
           tr == IF RateInvalid(parserTickRate) THEN fallbackTickRate ELSE parserTickRate
       IN IF RateInvalid(headerFrameRate) /\ fallbackFrameRate = NoFallback
          THEN /\ pc' = "failed"
               /\ UNCHANGED <<handlersRegistered, matchVars, mapVars>>
          ELSE IF RateInvalid(parserTickRate) /\ fallbackTickRate = NoFallback
          THEN /\ pc' = "failed"
               /\ FrameRate' = fr
               /\ UNCHANGED <<handlersRegistered, TickRate, FrameRateRounded,
                              SmokeEffectLifetime, HalfStarts, RoundStarts, GrenadeEffects,
                              Killfeed, Shots, States, currentPhase, latestTimerEventTime,
                              mapVars>>
          ELSE /\ pc' = "parsing"
               /\ FrameRate' = fr
               /\ TickRate' = tr
               /\ FrameRateRounded' = Round(fr)
               /\ MapName' = headerMapName
               /\ MapPZero' = [X |-> MapLookup(headerMapName).PZero.X,
                               Y |-> MapLookup(headerMapName).PZero.Y]
               /\ MapScale' = MapLookup(headerMapName).Scale
               /\ SmokeEffectLifetime' = Trunc(18 * fr, RateDen)
               /\ handlersRegistered' = TRUE
               /\ UNCHANGED <<HalfStarts, RoundStarts, GrenadeEffects, Killfeed, Shots,
                              States, currentPhase, latestTimerEventTime>>
    /\ UNCHANGED <<demoVars, translated, eventLog, currentFrame, evLeft, histVars>>

\* an event of the frame being parsed is dispatched to the registered handlers
Dispatching ==
    /\ pc = "parsing"
    /\ handlersRegistered
    /\ currentFrame < frameCap
    /\ evLeft > 0

\* ------------------------------------------------------------ grenades
\* mutant: the loop runs one iteration too many
RECURSIVE grenadeLoopOneMore(_, _, _, _, _)
grenadeLoopOneMore(i, effectLifetime, frame, e, ge) ==
    IF i <= effectLifetime
    THEN LET effect == [id |-> e.id, GrenadeType |-> e.GrenadeType, Lifetime |-> i]
         IN grenadeLoopOneMore(i + 1, effectLifetime, frame, e,
                IF frame + i \in DOMAIN ge
                THEN Put(ge, frame + i, Append(ge[frame + i], effect))
                ELSE Put(ge, frame + i, <<effect>>))
    ELSE ge

\* mutant: the effect is put in front of the entries the bucket holds
RECURSIVE grenadeLoopInFront(_, _, _, _, _)
grenadeLoopInFront(i, effectLifetime, frame, e, ge) ==
    IF i < effectLifetime
    THEN LET effect == [id |-> e.id, GrenadeType |-> e.GrenadeType, Lifetime |-> i]
         IN grenadeLoopInFront(i + 1, effectLifetime, frame, e,
                IF frame + i \in DOMAIN ge
                THEN Put(ge, frame + i, <<effect>> \o ge[frame + i])
                ELSE Put(ge, frame + i, <<effect>>))
    ELSE ge

\* the loop of grenadeEventHandler from iteration i on, on the map ge
RECURSIVE grenadeLoop(_, _, _, _, _)
grenadeLoop(i, effectLifetime, frame, e, ge) ==
    IF i < effectLifetime
    THEN LET effect == [id |-> e.id, GrenadeType |-> e.GrenadeType, Lifetime |-> i]
         IN grenadeLoop(i + 1, effectLifetime, frame, e,
                IF frame + i \in DOMAIN ge
                THEN Put(ge, frame + i, Append(ge[frame + i], effect))
                ELSE Put(ge, frame + i, <<effect>>))
    ELSE ge

grenadeEventHandler(lifetime, frame, e) ==
    /\ GrenadeEffects' = grenadeLoop(0, lifetime, frame, e, GrenadeEffects)
    /\ registry' = Append(registry, [kind |-> "grenade", frame |-> frame,
                                     life |-> lifetime, rs |-> Len(RoundStarts)])

\* the id of the next registered effect
NextId == Len(registry) + 1

GrenadeEvent(type) == [id |-> NextId, GrenadeType |-> type]

FlashExplode ==
    /\ Dispatching
    /\ grenadeEventHandler(flashEffectLifetime, currentFrame, GrenadeEvent("Flash"))
    /\ evLeft' = evLeft - 1
    /\ UNCHANGED <<pc, demoVars, mapVars, translated, eventLog,
                   handlersRegistered, currentFrame, FrameRate, TickRate,
                   FrameRateRounded, SmokeEffectLifetime, HalfStarts, RoundStarts, Killfeed,
                   Shots, States, currentPhase, latestTimerEventTime, lastTransition,
                   builtFrom, skipped>>

HeExplode ==
    /\ Dispatching
    /\ grenadeEventHandler(heEffectLifetime, currentFrame, GrenadeEvent("HE"))
    /\ evLeft' = evLeft - 1
    /\ UNCHANGED <<pc, demoVars, mapVars, translated, eventLog,
                   handlersRegistered, currentFrame, FrameRate, TickRate,
                   FrameRateRounded, SmokeEffectLifetime, HalfStarts, RoundStarts, Killfeed,
                   Shots, States, currentPhase, latestTimerEventTime, lastTransition,
                   builtFrom, skipped>>

SmokeStart ==
    /\ Dispatching
    /\ grenadeEventHandler(SmokeEffectLifetime, currentFrame, GrenadeEvent("Smoke"))
    /\ evLeft' = evLeft - 1
    /\ UNCHANGED <<pc, demoVars, mapVars, translated, eventLog,
                   handlersRegistered, currentFrame, FrameRate, TickRate,
                   FrameRateRounded, SmokeEffectLifetime, HalfStarts, RoundStarts, Killfeed,
                   Shots, States, currentPhase, latestTimerEventTime, lastTransition,
                   builtFrom, skipped>>

\* ------------------------------------------------------------ weapon fire
\* Equipment.Class() of the weapon types the model draws from
ClassOf(type) ==
    CASE type = "AWP" -> "Rifle"
      [] type = "AK47" -> "Rifle"
      [] type = "Knife" -> "Equipment"
      [] type = "HE" -> "Grenade"
      [] OTHER -> "Unknown"

WeaponFireEvents == [Shooter : {"nil", "player"},
                     Type : {"AWP", "AK47", "Knife", "HE", "Unknown"}]

\* mutant: the quotients are rounded to the nearest integer instead of truncated
shotLifetimeRounded(isAwpShot) ==
    LET lifetime == (2 * (FrameRate + RateDen) + 32 * RateDen) \div (2 * 32 * RateDen)
        atLeast1 == IF lifetime = 0 THEN 1 ELSE lifetime
    IN IF isAwpShot
       THEN (2 * (FrameRate + RateDen) + 8 * RateDen) \div (2 * 8 * RateDen)
       ELSE atLeast1

\* lifetime in frames of a tracer
shotLifetime(isAwpShot) ==
    LET lifetime == Trunc(FrameRate + RateDen, 32 * RateDen)
        atLeast1 == IF lifetime = 0 THEN 1 ELSE lifetime
    IN IF isAwpShot THEN Trunc(FrameRate + RateDen, 8 * RateDen) ELSE atLeast1

\* the loop of weaponFireEventHandler from iteration i on, on the map sh
RECURSIVE shotLoop(_, _, _, _, _)
shotLoop(i, lifetime, frame, shot, sh) ==
    IF i < lifetime
    THEN shotLoop(i + 1, lifetime, frame, shot,
             IF frame + i \in DOMAIN sh
             THEN Put(sh, frame + i, Append(sh[frame + i], shot))
             ELSE Put(sh, frame + i, <<shot>>))
    ELSE sh

weaponFireEventHandler(frame, e) ==
    IF e.Shooter = "nil"
    THEN UNCHANGED <<Shots, registry>>
    ELSE IF ClassOf(e.Type) \in {"Equipment", "Grenade", "Unknown"}
    THEN UNCHANGED <<Shots, registry>>
    ELSE LET isAwpShot == e.Type = "AWP"
             shot == [id |-> NextId, IsAwpShot |-> isAwpShot]
             lifetime == shotLifetime(isAwpShot)
         IN /\ Shots' = shotLoop(0, lifetime, frame, shot, Shots)
            /\ registry' = Append(registry, [kind |-> "shot", frame |-> frame,
                                             life |-> lifetime, rs |-> Len(RoundStarts),
                                             type |-> e.Type])

WeaponFire(e) ==
    /\ Dispatching
    /\ weaponFireEventHandler(currentFrame, e)
    /\ evLeft' = evLeft - 1
    /\ UNCHANGED <<pc, demoVars, mapVars, translated, eventLog,
                   handlersRegistered, currentFrame, FrameRate, TickRate,
                   FrameRateRounded, SmokeEffectLifetime, HalfStarts, RoundStarts,
                   GrenadeEffects, Killfeed, States, currentPhase, latestTimerEventTime,
                   lastTransition, builtFrom, skipped>>

\* ------------------------------------------------------------ kills
KillEvents == {[Killer |-> "player", Victim |-> "player"],
               [Killer |-> "nil", Victim |-> "player"]}

\* the loop of the Kill handler from iteration i on, on the map kf
RECURSIVE killLoop(_, _, _, _, _)
killLoop(i, n, frame, kill, kf) ==
    IF i < n
    THEN killLoop(i + 1, n, frame, kill,
             IF frame + i \in DOMAIN kf
             THEN LET kills == kf[frame + i]
                      cut == IF Len(kills) > 5 THEN Put(kf, frame + i, Tail(kf[frame + i]))
                                               ELSE kf
                  IN Put(cut, frame + i, Append(kills, kill))
             ELSE Put(kf, frame + i, <<kill>>))
    ELSE kf

Kill(e) ==
    /\ Dispatching
    /\ LET kill == [id |-> NextId,
                    KillerName |-> IF e.Killer = "nil" THEN "World" ELSE "killer",
                    VictimName |-> IF e.Victim = "nil" THEN "World" ELSE "victim"]
           n == FrameRateRounded * killfeedLifetime
       IN /\ Killfeed' = killLoop(0, n, currentFrame, kill, Killfeed)
          /\ registry' = Append(registry, [kind |-> "kill", frame |-> currentFrame,
                                           life |-> n, rs |-> Len(RoundStarts)])
    /\ evLeft' = evLeft - 1
    /\ UNCHANGED <<pc, demoVars, mapVars, translated, eventLog,
                   handlersRegistered, currentFrame, FrameRate, TickRate,
                   FrameRateRounded, SmokeEffectLifetime, HalfStarts, RoundStarts,
                   GrenadeEffects, Shots, States, currentPhase, latestTimerEventTime,
                   lastTransition, builtFrom, skipped>>

\* ------------------------------------------------------------ rounds, halves, phases
\* mutant: the anchor timestamp is not taken
setPhaseKeepTime(phase) ==
    /\ currentPhase' = phase
    /\ UNCHANGED latestTimerEventTime

\* a handler that sets the tracked phase and the anchor timestamp
setPhase(phase) ==
    /\ currentPhase' = phase
    /\ latestTimerEventTime' = CurrentTime

\* history: the transition event being delivered
Delivered(kind) == [kind |-> kind, frame |-> currentFrame, time |-> CurrentTime]

\* mutant: the loop empties the bucket of the RoundStart frame and stops one short
RECURSIVE resetLoopFromFrame(_, _, _, _)
resetLoopFromFrame(i, n, frame, ge) ==
    IF i < n
    THEN resetLoopFromFrame(i + 1, n, frame, Put(ge, frame + i - 1, <<>>))
    ELSE ge

\* the loop of the third RoundStart handler from iteration i on, on the map ge
RECURSIVE resetLoop(_, _, _, _)
resetLoop(i, n, frame, ge) ==
    IF i < n
    THEN resetLoop(i + 1, n, frame, Put(ge, frame + i, <<>>))
    ELSE ge

\* the three RoundStart handlers, in the order they were registered
RoundStart ==
    /\ Dispatching
    /\ RoundStarts' = Append(RoundStarts, currentFrame)
    /\ eventLog' = [eventLog EXCEPT !.rounds = Append(@, currentFrame)]
    /\ setPhase("Freezetime")
    /\ lastTransition' = Delivered("RoundStart")
    /\ GrenadeEffects' = resetLoop(1, SmokeEffectLifetime, currentFrame, GrenadeEffects)
    /\ evLeft' = evLeft - 1
    /\ UNCHANGED <<pc, demoVars, mapVars, translated,
                   handlersRegistered, currentFrame, FrameRate, TickRate,
                   FrameRateRounded, SmokeEffectLifetime, HalfStarts, Killfeed, Shots,
                   States, registry, builtFrom, skipped>>

MatchStart ==
    /\ Dispatching
    /\ HalfStarts' = Append(HalfStarts, currentFrame)
    /\ eventLog' = [eventLog EXCEPT !.halves = Append(@, currentFrame)]
    /\ evLeft' = evLeft - 1
    /\ UNCHANGED <<pc, demoVars, mapVars, translated,
                   handlersRegistered, currentFrame, FrameRate, TickRate,
                   FrameRateRounded, SmokeEffectLifetime, RoundStarts, GrenadeEffects,
                   Killfeed, Shots, States, currentPhase, latestTimerEventTime, histVars>>

\* mutant: only the second GameHalfEnded handler is registered
GameHalfEndedPhaseOnly ==
    /\ Dispatching
    /\ eventLog' = [eventLog EXCEPT !.halves = Append(@, currentFrame)]
    /\ setPhase("Halftime")
    /\ lastTransition' = Delivered("GameHalfEnded")
    /\ evLeft' = evLeft - 1
    /\ UNCHANGED <<pc, demoVars, mapVars, translated,
                   handlersRegistered, currentFrame, FrameRate, TickRate,
                   FrameRateRounded, SmokeEffectLifetime, HalfStarts, RoundStarts,
                   GrenadeEffects, Killfeed, Shots, States, registry, builtFrom, skipped>>

\* the two GameHalfEnded handlers, in the order they were registered
GameHalfEnded ==
    /\ Dispatching
    /\ HalfStarts' = Append(HalfStarts, currentFrame)
    /\ eventLog' = [eventLog EXCEPT !.halves = Append(@, currentFrame)]
    /\ setPhase("Halftime")
    /\ lastTransition' = Delivered("GameHalfEnded")
    /\ evLeft' = evLeft - 1
    /\ UNCHANGED <<pc, demoVars, mapVars, translated,
                   handlersRegistered, currentFrame, FrameRate, TickRate,
                   FrameRateRounded, SmokeEffectLifetime, RoundStarts, GrenadeEffects,
                   Killfeed, Shots, States, registry, builtFrom, skipped>>

RoundFreezetimeEnd ==
    /\ Dispatching
    /\ setPhase("Regular")
    /\ lastTransition' = Delivered("RoundFreezetimeEnd")
    /\ evLeft' = evLeft - 1
    /\ UNCHANGED <<pc, demoVars, mapVars, translated, eventLog,
                   handlersRegistered, currentFrame, FrameRate, TickRate,
                   FrameRateRounded, SmokeEffectLifetime, HalfStarts, RoundStarts,
                   GrenadeEffects, Killfeed, Shots, States, registry, builtFrom, skipped>>

BombPlanted ==
    /\ Dispatching
    /\ setPhase("Planted")
    /\ lastTransition' = Delivered("BombPlanted")
    /\ evLeft' = evLeft - 1
    /\ UNCHANGED <<pc, demoVars, mapVars, translated, eventLog,
                   handlersRegistered, currentFrame, FrameRate, TickRate,
                   FrameRateRounded, SmokeEffectLifetime, HalfStarts, RoundStarts,
                   GrenadeEffects, Killfeed, Shots, States, registry, builtFrom, skipped>>

RoundEnd ==
    /\ Dispatching
    /\ setPhase("Restart")
    /\ lastTransition' = Delivered("RoundEnd")
    /\ evLeft' = evLeft - 1
    /\ UNCHANGED <<pc, demoVars, mapVars, translated, eventLog,
                   handlersRegistered, currentFrame, FrameRate, TickRate,
                   FrameRateRounded, SmokeEffectLifetime, HalfStarts, RoundStarts,
                   GrenadeEffects, Killfeed, Shots, States, registry, builtFrom, skipped>>

AnnouncementWinPanelMatch ==
    /\ Dispatching
    /\ HalfStarts' = Append(HalfStarts, currentFrame)
    /\ eventLog' = [eventLog EXCEPT !.halves = Append(@, currentFrame)]
    /\ evLeft' = evLeft - 1
    /\ UNCHANGED <<pc, demoVars, mapVars, translated,
                   handlersRegistered, currentFrame, FrameRate, TickRate,
                   FrameRateRounded, SmokeEffectLifetime, RoundStarts, GrenadeEffects,
                   Killfeed, Shots, States, currentPhase, latestTimerEventTime, histVars>>

\* ------------------------------------------------------------ the tick loop
\* time.Duration(roundtime*60) for roundtime = f[1]/f[2]
RoundSeconds(f) == Trunc(f[1] * 60, f[2])

\* the duration, in time units, the timer switch uses for the phase
phaseDuration(phase) ==
    CASE phase = "Freezetime" -> Atoi(conVars.mp_freezetime) * Second
      [] phase = "Regular" -> RoundSeconds(ParseFloat(conVars.mp_roundtime_defuse)) * Second
      [] phase = "Planted" -> c4timer * Second
      [] phase = "Restart" -> Atoi(conVars.mp_round_restart_delay) * Second
      [] phase = "Halftime" -> Atoi(conVars.mp_halftime_duration) * Second
      [] OTHER -> 0

\* mutant: a tracked phase of Halftime is written as it is
timerPhaseSame(phase) == phase

\* the Phase field the timer switch writes for the tracked phase
timerPhase(phase) == IF phase = "Halftime" THEN "Restart" ELSE phase

\* mutant: the elapsed time is added to the duration
deriveTimerCountUp(isWarmupPeriod) ==
    IF isWarmupPeriod
    THEN [TimeRemaining |-> 0, Phase |-> "Warmup"]
    ELSE [TimeRemaining |-> phaseDuration(currentPhase)
                               + (CurrentTime - latestTimerEventTime),
          Phase |-> timerPhase(currentPhase)]

\* mutant: the warmup test is left out
deriveTimerNoWarmup(isWarmupPeriod) ==
    [TimeRemaining |-> phaseDuration(currentPhase) - (CurrentTime - latestTimerEventTime),
     Phase |-> timerPhase(currentPhase)]

\* mutant: the countdown runs from the start of the demo, not from the anchor
deriveTimerNoAnchor(isWarmupPeriod) ==
    IF isWarmupPeriod
    THEN [TimeRemaining |-> 0, Phase |-> "Warmup"]
    ELSE [TimeRemaining |-> phaseDuration(currentPhase) - CurrentTime,
          Phase |-> timerPhase(currentPhase)]

\* The Timer of the snapshot of the frame just parsed.  The switch has no case for
\* a tracked phase of Warmup, which only the zero value can be; the Timer is then
\* the zero Timer, whose Phase is that zero value.
deriveTimer(isWarmupPeriod) ==
    IF isWarmupPeriod
    THEN [TimeRemaining |-> 0, Phase |-> "Warmup"]
    ELSE IF currentPhase \in {"Freezetime", "Regular", "Planted", "Restart", "Halftime"}
    THEN [TimeRemaining |-> phaseDuration(currentPhase)
                               - (CurrentTime - latestTimerEventTime),
          Phase |-> timerPhase(currentPhase)]
    ELSE [TimeRemaining |-> 0, Phase |-> "Warmup"]

\* ParseNextFrame returned (true, nil): the loop body appends the snapshot
ParseFrame(isWarmupPeriod) ==
    /\ pc = "parsing"
    /\ currentFrame < frameCap
    /\ States' = Append(States, [Timer |-> deriveTimer(isWarmupPeriod)])
    /\ builtFrom' = Append(builtFrom, [frame |-> currentFrame, warmup |-> isWarmupPeriod,
                                       trans |-> lastTransition,
                                       phase |-> currentPhase,
                                       anchor |-> latestTimerEventTime])
    /\ currentFrame' = currentFrame + 1
    /\ UNCHANGED <<pc, demoVars, mapVars, translated, eventLog,
                   handlersRegistered, evLeft, FrameRate, TickRate,
                   FrameRateRounded, SmokeEffectLifetime, HalfStarts, RoundStarts,
                   GrenadeEffects, Killfeed, Shots, currentPhase, latestTimerEventTime,
                   registry, lastTransition, skipped>>

\* mutant: the loop returns at the first decode error
ParseFrameErrorReturn ==
    /\ pc = "parsing"
    /\ currentFrame < frameCap
    /\ skipped' = skipped \cup {currentFrame}
    /\ currentFrame' = currentFrame + 1
    /\ pc' = "returned"
    /\ UNCHANGED <<demoVars, mapVars, translated, eventLog,
                   handlersRegistered, evLeft, matchVars, registry,
                   lastTransition, builtFrom>>

\* ParseNextFrame returned (true, err): the error is logged and the loop continues
ParseFrameError ==
    /\ pc = "parsing"
    /\ currentFrame < frameCap
    /\ skipped' = skipped \cup {currentFrame}
    /\ currentFrame' = currentFrame + 1
    /\ UNCHANGED <<pc, demoVars, mapVars, translated, eventLog,
                   handlersRegistered, evLeft, matchVars, registry,
                   lastTransition, builtFrom>>

\* ParseNextFrame returned ok = false at the end of the stream: parseGameStates
\* and NewMatch return
ParseEnd ==
    /\ pc = "parsing"
    /\ currentFrame = frameCap
    /\ pc' = "returned"
    /\ UNCHANGED <<demoVars, mapVars, translated, eventLog,
                   handlersRegistered, currentFrame, evLeft, matchVars, histVars>>

\* ------------------------------------------------------------ coordinates
\* mutant: the y axis is not mirrored
TranslateSameAxes(x, y) == <<x - MapPZero.X, y - MapPZero.Y>>

\* Match.Translate
Translate(x, y) == <<x - MapPZero.X, MapPZero.Y - y>>

\* the float32 division a / s of a whole a by the scale s = <<n, d>> with n >= 0:
\* dividing by zero gives an infinity of the sign of a, and a NaN when a is zero
FDiv(a, s) ==
    IF s[1] # 0 THEN Finite(a * s[2], s[1])
    ELSE IF a > 0 THEN NotFinite("+Inf")
    ELSE IF a < 0 THEN NotFinite("-Inf")
    ELSE NotFinite("NaN")

\* Match.TranslateScale
TranslateScale(x, y) ==
    LET t == Translate(x, y)
    IN <<FDiv(t[1], MapScale), FDiv(t[2], MapScale)>>

\* the renderer calls Translate and TranslateScale on the Match NewMatch returned
TranslateCall(x, y) ==
    /\ pc = "returned"
    /\ translated' = [called |-> TRUE, x |-> x, y |-> y,
                      t |-> Translate(x, y), ts |-> TranslateScale(x, y)]
    /\ UNCHANGED <<pc, demoVars, handlersRegistered, currentFrame, evLeft, matchVars,
                   mapVars, histVars, eventLog>>

\* ------------------------------------------------------------ specifications
\* the demos and fallback arguments NewMatch is run on
Demos ==
    {[FrameRate |-> 1, TickRate |-> 2, fallbackFrameRate |-> NoFallback,
      fallbackTickRate |-> NoFallback, ConVars |-> ConVarsSet],
     [FrameRate |-> NaN, TickRate |-> 0, fallbackFrameRate |-> 2,
      fallbackTickRate |-> 2, ConVars |-> ConVarsAbsent],
     [FrameRate |-> 0, TickRate |-> 2, fallbackFrameRate |-> NoFallback,
      fallbackTickRate |-> 2, ConVars |-> ConVarsSet]}

InitDemo(d) ==
    /\ headerFrameRate = d.FrameRate
    /\ parserTickRate = d.TickRate
    /\ fallbackFrameRate = d.fallbackFrameRate
    /\ fallbackTickRate = d.fallbackTickRate
    /\ conVars = d.ConVars
    /\ headerMapName = "de_dust2"

Init ==
    /\ InitMatch
    /\ \E d \in Demos : InitDemo(d)
    /\ frameCap = MaxFrames
    /\ evLeft = MaxEvents

Next ==
    \/ NewMatch
    \/ RoundStart
    \/ MatchStart
    \/ GameHalfEnded
    \/ \E e \in WeaponFireEvents : WeaponFire(e)
    \/ FlashExplode
    \/ HeExplode
    \/ SmokeStart
    \/ \E e \in KillEvents : Kill(e)
    \/ RoundFreezetimeEnd
    \/ BombPlanted
    \/ RoundEnd
    \/ AnnouncementWinPanelMatch
    \/ \E w \in BOOLEAN : ParseFrame(w)
    \/ ParseFrameError
    \/ ParseEnd

Spec == Init /\ [][Next]_vars

\* NewMatch on every combination of decoder rates and fallback arguments
Rates == {NaN, 0, 1, 2}

Fallbacks == {NoFallback, 2, 3}

InitNew ==
    /\ InitMatch
    /\ headerFrameRate \in Rates
    /\ parserTickRate \in Rates
    /\ fallbackFrameRate \in Fallbacks
    /\ fallbackTickRate \in Fallbacks
    /\ conVars = ConVarsSet
    /\ headerMapName = "de_dust2"
    /\ frameCap = MaxNewFrames
    /\ evLeft = MaxNewEvents

SpecNew == InitNew /\ [][Next]_vars

\* a demo whose only events are kills
InitKill ==
    /\ InitMatch
    /\ headerFrameRate = 1
    /\ parserTickRate = 2
    /\ fallbackFrameRate = NoFallback
    /\ fallbackTickRate = NoFallback
    /\ conVars = ConVarsBad
    /\ headerMapName = "de_dust2"
    /\ frameCap = MaxFrames
    /\ evLeft = MaxKills

NextKill ==
    \/ NewMatch
    \/ \E e \in KillEvents : Kill(e)
    \/ ParseFrame(FALSE)
    \/ ParseEnd

SpecKill == InitKill /\ [][NextKill]_vars

\* demos of every frame rate up to MaxFireRate / RateDen whose only events are
\* weapon fire
InitFire ==
    /\ InitMatch
    /\ headerFrameRate \in 1..MaxFireRate
    /\ parserTickRate = 2
    /\ fallbackFrameRate = NoFallback
    /\ fallbackTickRate = NoFallback
    /\ conVars = ConVarsSet
    /\ headerMapName = "de_dust2"
    /\ frameCap = MaxFrames
    /\ evLeft = MaxShots

NextFire ==
    \/ NewMatch
    \/ \E e \in WeaponFireEvents : WeaponFire(e)
    \/ ParseFrame(FALSE)
    \/ ParseEnd

SpecFire == InitFire /\ [][NextFire]_vars

\* demos whose only events are the phase transitions, with the configuration
\* values set, absent and unparseable
InitTimer ==
    /\ InitMatch
    /\ headerFrameRate = 1
    /\ parserTickRate = 2
    /\ fallbackFrameRate = NoFallback
    /\ fallbackTickRate = NoFallback
    /\ conVars \in {ConVarsSet, ConVarsAbsent, ConVarsBad}
    /\ headerMapName = "de_dust2"
    /\ frameCap = MaxTimerFrames
    /\ evLeft = MaxTimerEvents

NextTimer ==
    \/ NewMatch
    \/ RoundStart
    \/ GameHalfEnded
    \/ RoundFreezetimeEnd
    \/ BombPlanted
    \/ RoundEnd
    \/ \E w \in BOOLEAN : ParseFrame(w)
    \/ ParseEnd

SpecTimer == InitTimer /\ [][NextTimer]_vars

\* a demo whose only events are grenade detonations and round starts
InitGrenade ==
    /\ InitMatch
    /\ headerFrameRate = 1
    /\ parserTickRate = 2
    /\ fallbackFrameRate = NoFallback
    /\ fallbackTickRate = NoFallback
    /\ conVars = ConVarsSet
    /\ headerMapName = "de_dust2"
    /\ frameCap = MaxGrenadeFrames
    /\ evLeft = MaxGrenades

NextGrenade ==
    \/ NewMatch
    \/ FlashExplode
    \/ HeExplode
    \/ SmokeStart
    \/ RoundStart
    \/ ParseFrame(FALSE)
    \/ ParseEnd

SpecGrenade == InitGrenade /\ [][NextGrenade]_vars

\* demos of known and unknown maps, and the coordinates the renderer translates
MapNames == {"de_dust2", "de_mirage", "de_unknown"}

Coords == {c * CoordStep : c \in (-MaxCoord)..MaxCoord}

InitMap ==
    /\ InitMatch
    /\ headerFrameRate = 1
    /\ parserTickRate = 2
    /\ fallbackFrameRate = NoFallback
    /\ fallbackTickRate = NoFallback
    /\ conVars = ConVarsSet
    /\ headerMapName \in MapNames
    /\ frameCap = MaxMapFrames
    /\ evLeft = 0

NextMap ==
    \/ NewMatch
    \/ ParseFrame(FALSE)
    \/ ParseEnd
    \/ \E x \in Coords, y \in Coords : TranslateCall(x, y)

SpecMap == InitMap /\ [][NextMap]_vars

\* ------------------------------------------------------------ properties
Last(q) == q[Len(q)]

\* the bucket map an effect of this kind is registered in
BucketsOf(kind) ==
    CASE kind = "grenade" -> GrenadeEffects
      [] kind = "shot" -> Shots
      [] kind = "kill" -> Killfeed

\* how often the effect id occurs in the bucket of frame f
Occurrences(kind, id, f) ==
    IF f \in DOMAIN BucketsOf(kind)
    THEN Cardinality({j \in 1..Len(BucketsOf(kind)[f]) : BucketsOf(kind)[f][j].id = id})
    ELSE 0

\* the frames F .. F+L-1 of a registered effect
Window(r) == r.frame .. (r.frame + r.life - 1)

\* a RoundStart delivered after the effect r was registered reset the bucket of f
ResetAfter(r, f) ==
    \E k \in (r.rs + 1)..Len(RoundStarts) :
        RoundStarts[k] + 1 <= f /\ f <= RoundStarts[k] + SmokeEffectLifetime - 1

EffectKinds == {"grenade", "shot", "kill"}

\* the ids of the effects held by the bucket of frame f, which exists
IdsInBucket(kind, f) ==
    LET bucket == BucketsOf(kind)[f]
    IN {bucket[j].id : j \in 1..Len(bucket)}

\* the effects of a kind whose window F .. F+L-1 has frame f
Covering(kind, f) ==
    {id \in 1..Len(registry) :
        /\ registry[id].kind = kind
        /\ registry[id].frame <= f
        /\ f <= registry[id].frame + registry[id].life - 1}

\* those of them that no later RoundStart reset on frame f
CoveringNotReset(kind, f) ==
    {id \in Covering(kind, f) : ~(kind = "grenade" /\ ResetAfter(registry[id], f))}

RECURSIVE CoveringKills(_, _)
CoveringKills(f, n) ==
    IF n = 0 THEN <<>>
    ELSE LET rest == CoveringKills(f, n - 1)
         IN IF registry[n].kind = "kill" /\ f \in Window(registry[n])
            THEN Append(rest, n) ELSE rest

LastFive(q) == IF Len(q) <= 5 THEN q ELSE SubSeq(q, Len(q) - 4, Len(q))

\* C2: every kill-feed bucket holds at most 5 entries, and they are the last 5
\* kills covering that frame, in registration order.
C2_KillfeedLastFive ==
    \A f \in DOMAIN Killfeed :
        /\ Len(Killfeed[f]) <= 5
        /\ [j \in 1..Len(Killfeed[f]) |-> Killfeed[f][j].id]
               = LastFive(CoveringKills(f, Len(registry)))

\* the phase a transition event stands for
PhaseOfEvent(kind) ==
    CASE kind = "RoundStart" -> "Freezetime"
      [] kind = "RoundFreezetimeEnd" -> "Regular"
      [] kind = "BombPlanted" -> "Planted"
      [] kind = "RoundEnd" -> "Restart"
      [] kind = "GameHalfEnded" -> "Halftime"

\* C3: once a transition event has been delivered, the tracked phase is the one
\* mapped from the most recent of them and the anchor timestamp is its playback
\* time; a step that delivers no transition event changes neither.
C3_PhaseIsLastTransition ==
    /\ [](lastTransition.kind # "none" =>
            /\ currentPhase = PhaseOfEvent(lastTransition.kind)
            /\ latestTimerEventTime = lastTransition.time)
    /\ [][lastTransition' = lastTransition =>
            UNCHANGED <<currentPhase, latestTimerEventTime>>]_vars

\* C3 witness: RoundStart on frame 0 was superseded by BombPlanted on frame 1,
\* and after the snapshot of frame 1 was built the phase and the anchor are still
\* those of BombPlanted.
C3_Witness ==
    /\ RoundStarts = <<0>>
    /\ lastTransition = [kind |-> "BombPlanted", frame |-> 1, time |-> FrameTime]
    /\ currentFrame = 2
    /\ Len(States) = 2
    /\ currentPhase = "Planted"
    /\ latestTimerEventTime = FrameTime

\* the phase tag a snapshot shows for a tracked phase
ShownTag(phase) == IF phase = "Halftime" THEN "Restart" ELSE phase

\* the countdown lengths, in seconds, that ConVarsSet configures
SecondsConfigured(phase) ==
    CASE phase = "Freezetime" -> 5
      [] phase = "Regular" -> 115
      [] phase = "Planted" -> 40
      [] phase = "Restart" -> 7
      [] phase = "Halftime" -> 15

C5_WarmupTimer ==
    /\ [](\A i \in 1..Len(States) :
            builtFrom[i].warmup =>
                States[i].Timer = [TimeRemaining |-> 0, Phase |-> "Warmup"])
    /\ [][Len(States') > Len(States) =>
            UNCHANGED <<currentPhase, latestTimerEventTime>>]_vars

\* C5 witness: a warmup snapshot built while the tracked phase is Planted, the
\* anchor is later than the start and a duration is configured.
C5_Witness ==
    /\ States # <<>>
    /\ Last(builtFrom).warmup
    /\ Last(builtFrom).trans.kind = "BombPlanted"
    /\ currentPhase = "Planted"
    /\ latestTimerEventTime > 0
    /\ Last(States).Timer = [TimeRemaining |-> 0, Phase |-> "Warmup"]

\* the frames parsed so far whose decode returned no error, in order
RECURSIVE DecodedFrames(_)
DecodedFrames(n) ==
    IF n = 0 THEN <<>>
    ELSE IF (n - 1) \in skipped THEN DecodedFrames(n - 1)
         ELSE Append(DecodedFrames(n - 1), n - 1)

\* C6: the snapshots in States are those of the frames decoded without error,
\* one each and in order, so a frame with a decode error has none and every
\* frame decoded after it has one; the step that skips a frame leaves States
\* alone and leaves the loop running.
C6_SkippedFrameOnly ==
    /\ [](/\ Len(States) = Len(builtFrom)
          /\ [i \in 1..Len(builtFrom) |-> builtFrom[i].frame] = DecodedFrames(currentFrame))
    /\ [][skipped' # skipped => (States' = States /\ pc' = "parsing")]_vars

\* C6 witness: frame 0 returned a decode error and frame 1 has its snapshot.
C6_Witness ==
    /\ 0 \in skipped
    /\ Len(States) = 1
    /\ builtFrom[1].frame = 1

\* C7: the snapshot at position i of States (counting from 0) was built from
\* frame i.
C7_StatesIndexedByFrame ==
    \A i \in 1..Len(States) : builtFrom[i].frame = i - 1

\* the decoder's rate is unusable: zero or NaN
Unusable(r) == r \in {0, NaN}

\* C8: NewMatch fails exactly when a decoder rate is zero or NaN and its
\* fallback is absent; then no handler is registered and no frame is parsed.
\* Otherwise the Match holds the decoder's rate when it is usable and the
\* fallback when it is not.
C8_NewMatchRates ==
    pc # "NewMatch" =>
        /\ pc = "failed" <=>
              \/ Unusable(headerFrameRate) /\ fallbackFrameRate = NoFallback
              \/ Unusable(parserTickRate) /\ fallbackTickRate = NoFallback
        /\ pc = "failed" =>
              /\ ~handlersRegistered
              /\ currentFrame = 0
              /\ States = <<>> /\ builtFrom = <<>> /\ skipped = {}
              /\ registry = <<>> /\ RoundStarts = <<>> /\ HalfStarts = <<>>
              /\ evLeft = MaxNewEvents
        /\ pc # "failed" =>
              /\ handlersRegistered
              /\ FrameRate = IF Unusable(headerFrameRate) THEN fallbackFrameRate
                                                          ELSE headerFrameRate
              /\ TickRate = IF Unusable(parserTickRate) THEN fallbackTickRate
                                                        ELSE parserTickRate

\* C8 witness: the frame rate is usable (and its fallback given but ignored), the
\* tick rate is NaN with no fallback, and NewMatch has failed.
C8_Witness ==
    /\ pc = "failed"
    /\ headerFrameRate = 1
    /\ fallbackFrameRate = 3
    /\ parserTickRate = NaN
    /\ fallbackTickRate = NoFallback

\* the integer part of n/d, and n/d rounded to the nearest integer (n >= 0, d > 0)
FloorQ(n, d) == CHOOSE k \in 0..n : k * d <= n /\ n < (k + 1) * d

RoundQ(n, d) == CHOOSE k \in 0..(n + 1) : 2 * k * d <= 2 * n + d /\ 2 * n + d < 2 * (k + 1) * d

Max(a, b) == IF a >= b THEN a ELSE b

\* the frames whose Shots bucket holds the shot id
FramesWithShot(id) == {f \in DOMAIN Shots : Occurrences("shot", id, f) > 0}

C10_ShotOnItsFrame ==
    \A id \in 1..Len(registry) :
        registry[id].kind = "shot" => Occurrences("shot", id, registry[id].frame) = 1

\* ------------------------------------------------------------ C11
\* the float32 value v is the whole number a
IsWhole(v, a) == v.cls = "finite" /\ v.num = a * v.den

\* C11: when the map name of the demo is not in the table of known maps, the Match
\* NewMatch returns has the zero origin and the unit scale, and TranslateScale
\* returns what Translate returns.
C11_UnknownMapUnitScale ==
    (pc = "returned" /\ MapName \notin DOMAIN MapNameToMap) =>
        /\ MapPZero = [X |-> 0, Y |-> 0]
        /\ MapScale[1] = MapScale[2]
        /\ translated.called =>
              /\ IsWhole(translated.ts[1], translated.t[1])
              /\ IsWhole(translated.ts[2], translated.t[2])

\* ------------------------------------------------------------ C12
\* the phases the timer switch has a case for
TimedPhases == {"Freezetime", "Regular", "Planted", "Restart", "Halftime"}

\* C12: outside warmup, the phase tag of a snapshot's Timer is the tracked phase
\* when that is Freezetime, Regular, Planted or Restart, and Restart when it is
\* Halftime; no snapshot carries the tag Halftime.
C12_TimerPhaseTag ==
    /\ Len(builtFrom) = Len(States)
    /\ \A i \in 1..Len(States) :
          LET b == builtFrom[i]
              tag == States[i].Timer.Phase
          IN /\ tag # "Halftime"
             /\ (~b.warmup /\ b.phase \in TimedPhases \ {"Halftime"}) => tag = b.phase
             /\ (~b.warmup /\ b.phase = "Halftime") => tag = "Restart"

\* a snapshot built during halftime, after one built in the Planted phase
C12_Witness ==
    /\ Len(States) >= 2
    /\ ~builtFrom[1].warmup /\ builtFrom[1].phase = "Planted"
    /\ States[1].Timer.Phase = "Planted"
    /\ ~builtFrom[2].warmup /\ builtFrom[2].phase = "Halftime"
    /\ builtFrom[2].trans.kind = "GameHalfEnded"
    /\ States[2].Timer.Phase = "Restart"

\* ------------------------------------------------------------ C13
\* the playback time of the frame the i-th snapshot was built from
BuiltAt(i) == builtFrom[i].frame * FrameTime

\* the i-th and the j-th snapshot belong to one phase interval
SameInterval(i, j) ==
    /\ ~builtFrom[i].warmup /\ ~builtFrom[j].warmup
    /\ builtFrom[i].phase \in TimedPhases
    /\ builtFrom[i].phase = builtFrom[j].phase
    /\ builtFrom[i].anchor = builtFrom[j].anchor

\* C13: within one phase interval (one tracked phase, one anchor, no warmup) the
\* time remaining is the duration minus the time elapsed since the anchor, so it
\* falls from each snapshot to the next by the playback time between them; it may
\* be negative.
C13_CountdownFalls ==
    /\ \A i \in 1..Len(States) :
          (~builtFrom[i].warmup /\ builtFrom[i].phase \in TimedPhases
                /\ conVars = ConVarsSet) =>
             States[i].Timer.TimeRemaining =
                 SecondsConfigured(builtFrom[i].phase) * Second
                    - (BuiltAt(i) - builtFrom[i].anchor)
    /\ \A i \in 1..Len(States) : \A j \in (i + 1)..Len(States) :
          SameInterval(i, j) =>
             /\ BuiltAt(i) < BuiltAt(j)
             /\ States[j].Timer.TimeRemaining < States[i].Timer.TimeRemaining
             /\ States[i].Timer.TimeRemaining - States[j].Timer.TimeRemaining
                   = BuiltAt(j) - BuiltAt(i)

\* three snapshots of one restart interval of a demo without configuration
\* values: the countdown falls below zero
C13_Witness ==
    /\ Len(States) = 3
    /\ SameInterval(1, 2) /\ SameInterval(2, 3)
    /\ builtFrom[1].phase = "Restart"
    /\ States[1].Timer.TimeRemaining > States[2].Timer.TimeRemaining
    /\ States[2].Timer.TimeRemaining > States[3].Timer.TimeRemaining
    /\ States[3].Timer.TimeRemaining < 0

\* ------------------------------------------------------------ C14
\* the time a snapshot's countdown started from: what remains plus what has elapsed
CountedFrom(i) == States[i].Timer.TimeRemaining + (BuiltAt(i) - builtFrom[i].anchor)

\* C14: in the Planted phase the countdown runs from the bomb timer value of the
\* match configuration when that is present (35 s in ConVarsSet), and from the
\* constant 40 s only when it is absent.
C14_BombTimerFromConfig ==
    \A i \in 1..Len(States) :
        (~builtFrom[i].warmup /\ builtFrom[i].phase = "Planted") =>
            /\ conVars = ConVarsSet => CountedFrom(i) = 35 * Second
            /\ conVars = ConVarsAbsent => CountedFrom(i) = 40 * Second

\* ------------------------------------------------------------ C15
\* the phases whose duration is read from the match configuration
ConfiguredPhases == {"Freezetime", "Regular", "Restart", "Halftime"}

\* C15: when the configuration value of the active phase's duration is missing
\* or does not parse, NewMatch does not fail, the snapshot of every frame is
\* still built, and its countdown runs from zero: the time remaining is minus
\* the time elapsed since the anchor, never positive.
C15_MissingConVarIsZero ==
    conVars \in {ConVarsAbsent, ConVarsBad} =>
        /\ pc # "failed"
        /\ Len(States) = currentFrame
        /\ \A i \in 1..Len(States) :
              (~builtFrom[i].warmup /\ builtFrom[i].phase \in ConfiguredPhases) =>
                 /\ States[i].Timer.TimeRemaining = -(BuiltAt(i) - builtFrom[i].anchor)
                 /\ States[i].Timer.TimeRemaining <= 0

\* a demo whose freezetime value "1.5" and halftime value "1x" do not parse:
\* RoundStart on frame 0, the half ends on frame 1
C15_Witness ==
    /\ conVars = ConVarsBad
    /\ Len(States) = 3
    /\ ~builtFrom[1].warmup /\ builtFrom[1].phase = "Freezetime"
    /\ States[1].Timer.TimeRemaining = 0
    /\ ~builtFrom[2].warmup /\ builtFrom[2].phase = "Halftime"
    /\ ~builtFrom[3].warmup /\ builtFrom[3].phase = "Halftime"
    /\ States[3].Timer.TimeRemaining = -FrameTime

\* ------------------------------------------------------------ C16
\* the float32 value v, multiplied by the scale s = <<n, d>>, is the whole number a
ScalesBackTo(v, s, a) == v.cls = "finite" /\ v.num * s[1] = a * v.den * s[2]

C17_RoundStartReset ==
    [][Len(eventLog'.rounds) > Len(eventLog.rounds) =>
          LET R == Last(eventLog'.rounds)
              reset == {f \in DOMAIN GrenadeEffects' : R < f /\ f < R + SmokeEffectLifetime}
          IN /\ R = currentFrame
             /\ Cardinality(reset) = SmokeEffectLifetime - 1
             /\ DOMAIN GrenadeEffects' = DOMAIN GrenadeEffects \cup reset
             /\ \A f \in reset : GrenadeEffects'[f] = <<>>
             /\ \A f \in DOMAIN GrenadeEffects' \ reset :
                   GrenadeEffects'[f] = GrenadeEffects[f]
             /\ Shots' = Shots
             /\ Killfeed' = Killfeed]_vars

\* a grenade went off on frame 0 and a RoundStart has just been delivered on
\* frame 1: the effect is still in the buckets of frames 0 and 1, and the
\* buckets of the frames after are empty
C17_Witness ==
    /\ RoundStarts = <<1>>
    /\ lastTransition.kind = "RoundStart" /\ currentFrame = 1
    /\ Len(registry) = 1 /\ registry[1].kind = "grenade" /\ registry[1].frame = 0
    /\ Len(GrenadeEffects[0]) = 1 /\ Len(GrenadeEffects[1]) = 1
    /\ \A f \in 2..SmokeEffectLifetime : GrenadeEffects[f] = <<>>

\* ------------------------------------------------------------ C18
\* C18: a grenade effect entry in the bucket of frame f, registered by a
\* detonation on frame F, carries the age f - F in its Lifetime field (from 0 up
\* to its lifetime - 1), and the entries of a bucket are in the order in which
\* their detonations were delivered.
C18_AgeAndOrder ==
    \A f \in DOMAIN GrenadeEffects :
        LET b == GrenadeEffects[f]
        IN \A j \in 1..Len(b) :
              /\ b[j].id \in 1..Len(registry)
              /\ registry[b[j].id].kind = "grenade"
              /\ b[j].Lifetime = f - registry[b[j].id].frame
              /\ b[j].Lifetime >= 0 /\ b[j].Lifetime < registry[b[j].id].life
              /\ \A k \in 1..Len(b) : j < k => b[j].id < b[k].id

\* a flash on frame 0, then a smoke and an HE grenade on frame 1: the bucket of
\* frame 1 holds the three in that order, the flash at age 1
C18_Witness ==
    /\ Len(registry) = 3
    /\ registry[1].frame = 0 /\ registry[2].frame = 1 /\ registry[3].frame = 1
    /\ 1 \in DOMAIN GrenadeEffects
    /\ Len(GrenadeEffects[1]) = 3
    /\ GrenadeEffects[1][1] = [id |-> 1, GrenadeType |-> "Flash", Lifetime |-> 1]
    /\ GrenadeEffects[1][2].id = 2 /\ GrenadeEffects[1][2].Lifetime = 0
    /\ GrenadeEffects[1][3].id = 3 /\ GrenadeEffects[1][3].Lifetime = 0

\* ------------------------------------------------------------ C19
\* the sequence q of frame numbers never falls
NonDecreasing(q) == \A i \in 1..Len(q) : \A j \in 1..Len(q) : i < j => q[i] <= q[j]

\* C19: RoundStarts holds one entry for each RoundStart event and HalfStarts one
\* for each MatchStart, GameHalfEnded and win panel event, each entry the frame of
\* its event, in the order of delivery; both lists are in non-decreasing frame
\* order, and after a GameHalfEnded event its frame is in HalfStarts and the
\* tracked phase is Halftime.
C19_StartLists ==
    /\ RoundStarts = eventLog.rounds
    /\ HalfStarts = eventLog.halves
    /\ NonDecreasing(RoundStarts)
    /\ NonDecreasing(HalfStarts)
    /\ lastTransition.kind = "GameHalfEnded" =>
          /\ currentPhase = "Halftime"
          /\ \E i \in 1..Len(HalfStarts) : HalfStarts[i] = lastTransition.frame

\* the match starts on frame 0 and the half ends on frame 1
C19_Witness ==
    /\ HalfStarts = <<0, 1>>
    /\ RoundStarts = <<>>
    /\ lastTransition = [kind |-> "GameHalfEnded", frame |-> 1, time |-> FrameTime]
    /\ currentPhase = "Halftime"

====
